---- MODULE Spec2Model ----
(***************************************************************************)
(* Side-effect propagation of react-query-grpc-gateway: sideEffect         *)
(* handlers and chainSideEffects driven by the mutation lifecycle of       *)
(* useServiceMutation, acting on the query cache of the QueryClient.       *)
(***************************************************************************)
EXTENDS Integers, Sequences, FiniteSets, TLC

\* ------------------------------------------------------------------------
\* Bounds of the model
\* ------------------------------------------------------------------------
\* Longest handler list passed to chainSideEffects.
MaxChain == 2
\* Number of mutation invocation slots.
NInv == 2
\* Longest handler list of a hook whose mutations run concurrently.
MaxConcurrentChain == 1

\* ------------------------------------------------------------------------
\* State
\* ------------------------------------------------------------------------
VARIABLES
    chain,   \* the descriptors of the handlers given to chainSideEffects
    cache,   \* the query cache: query key -> query
    inv,     \* per mutation invocation: where its lifecycle stands
    hs,      \* per invocation and handler: the state of the running callback
    log,     \* the cache-store calls issued by the handlers, in order
    call,    \* a useServiceQuery or useServiceMutation call to a service method
    target   \* a target value the exported patchFn and updateFn are applied to

vars == <<chain, cache, inv, hs, log, call, target>>

\* ------------------------------------------------------------------------
\* Values
\* ------------------------------------------------------------------------
\* Cached data is either undefined or an object {count: n}.
Undefined == [def |-> FALSE, count |-> 0]
Obj(n) == [def |-> TRUE, count |-> n]

\* The fields of the source request seen as data, {count: 7}.
RequestData == Obj(7)
\* The data a refetch of a target query brings from the server.
ServerData == Obj(3)

\* Request values: two distinct request objects, null and undefined.
ReqA == [type |-> "object", id |-> 1]
ReqB == [type |-> "object", id |-> 2]
Null == [type |-> "null", id |-> 0]
UndefinedReq == [type |-> "undefined", id |-> 0]
ReqValues == {ReqA, ReqB, Null, UndefinedReq}

\* Target service methods, identified by their function name.
Methods == {"readUser", "listUsers"}

\* The data a query holds before the mutation: {count: 5}, and {count: 4}
\* for the queries made with the second request object.
CachedData(k) == IF Len(k) = 2 /\ k[2] = ReqB THEN Obj(4) ELSE Obj(5)

\* ------------------------------------------------------------------------
\* queryKey.ts
\* ------------------------------------------------------------------------
\* A key derivation that drops a null request like an undefined one.
queryKeyNullish(method, req) ==
    IF req \in {UndefinedReq, Null} THEN <<method>> ELSE <<method, req>>

queryKey(method, req) ==
    IF req = UndefinedReq THEN <<method>> ELSE <<method, req>>

\* String(x) as Array.prototype.join applies it to an element: null and
\* undefined give the empty string, a plain object gives "[object Object]".
ElementToString(x) ==
    IF x.type = "object" THEN "[object Object]" ELSE ""

\* key.join('-')
Join(key) ==
    IF Len(key) = 1 THEN key[1] ELSE key[1] \o "-" \o ElementToString(key[2])

AllKeys == {queryKey(m, r) : m \in Methods, r \in ReqValues}
AllJoined == {Join(k) : k \in AllKeys}

\* ------------------------------------------------------------------------
\* The query cache (QueryClient)
\* ------------------------------------------------------------------------
\* One entry per query key: whether the query exists in the cache, its data,
\* its isInvalidated flag, whether a fetch is in flight (with the state the
\* fetch reverts to when cancelled), whether it has observers and whether it
\* has a queryFn.
NoQuery ==
    [exists |-> FALSE, data |-> Undefined, invalidated |-> FALSE,
     fetching |-> FALSE, revertData |-> Undefined, revertInvalidated |-> FALSE,
     observed |-> FALSE, queryFn |-> FALSE]

\* A query that was fetched by a useServiceQuery hook.
FetchedQuery(v, obs) ==
    [exists |-> TRUE, data |-> v, invalidated |-> FALSE,
     fetching |-> FALSE, revertData |-> Undefined, revertInvalidated |-> FALSE,
     observed |-> obs, queryFn |-> TRUE]

\* The same query while a refetch is in flight.
RefetchingQuery(v, obs) ==
    [FetchedQuery(v, obs) EXCEPT !.fetching = TRUE, !.revertData = v]

\* partialMatchKey: the filter key is a prefix of the query's key.
Matches(filterKey, k) ==
    /\ Len(filterKey) <= Len(k)
    /\ \A j \in 1..Len(filterKey) : k[j] = filterKey[j]

\* queryCache.findAll({queryKey})
FindAll(c, filterKey) ==
    {k \in DOMAIN c : c[k].exists /\ Matches(filterKey, k)}

\* queryClient.getQueryData(key)
GetQueryData(c, k) == c[k].data

\* query.cancel({revert: true}) of an in-flight fetch: the state goes back to
\* the one stored when the fetch began.
CancelQuery(q) ==
    IF q.fetching
    THEN [q EXCEPT !.fetching = FALSE, !.data = q.revertData,
                   !.invalidated = q.revertInvalidated,
                   !.revertData = Undefined, !.revertInvalidated = FALSE]
    ELSE q

\* queryClient.cancelQueries({queryKey})
CancelQueries(c, filterKey) ==
    [k \in DOMAIN c |-> IF k \in FindAll(c, filterKey) THEN CancelQuery(c[k]) ELSE c[k]]

\* A cancelQueries promise that hands on the CancelledError the cancelled
\* fetches reject with.
CancelQueriesPromiseRejecting(cancelled) ==
    IF cancelled = {} THEN "resolved" ELSE "rejected"

\* The promise cancelQueries returns, given the fetches it cancelled:
\* Promise.all(...).then(noop).catch(noop) resolves whether there was a
\* fetch to cancel or not, and whatever the cancelled fetches settled with.
CancelQueriesPromise(cancelled) == "resolved"

\* queryClient.setQueryData(key, data): undefined data leaves the cache as it
\* is; otherwise the query is built if missing and its data replaced, which
\* also clears isInvalidated.
SetQueryData(c, k, v) ==
    IF v = Undefined THEN c
    ELSE [c EXCEPT ![k] = [@ EXCEPT !.exists = TRUE, !.data = v, !.invalidated = FALSE]]

\* queryClient.removeQueries({queryKey})
RemoveQueries(c, filterKey) ==
    [k \in DOMAIN c |->
        IF k \in FindAll(c, filterKey)
        THEN [NoQuery EXCEPT !.observed = c[k].observed]
        ELSE c[k]]

\* Whether refetchQueries({type}) picks the query: the type filter, and the
\* query is not disabled.
Refetched(q, refetchType) ==
    /\ refetchType # "none"
    /\ \/ refetchType = "all"
       \/ refetchType = "active" /\ q.observed
       \/ refetchType = "inactive" /\ ~q.observed
    /\ q.queryFn

\* query.fetch(undefined, {cancelRefetch: true}) on an invalidated query.
StartFetch(q) ==
    IF q.fetching /\ ~q.data.def
    THEN q
    ELSE [q EXCEPT !.fetching = TRUE, !.revertData = q.data,
                   !.revertInvalidated = q.invalidated]

\* The keys invalidateQueries({queryKey, refetchType}) refetches.
RefetchKeys(c, filterKey, refetchType) ==
    {k \in FindAll(c, filterKey) : Refetched(c[k], refetchType)}

\* queryClient.invalidateQueries({queryKey, refetchType}): every matching
\* query is marked invalidated, then the queries of the refetch type are
\* fetched again.
InvalidateQueries(c, filterKey, refetchType) ==
    [k \in DOMAIN c |->
        IF k \in FindAll(c, filterKey)
        THEN LET q == [c[k] EXCEPT !.invalidated = TRUE]
             IN IF Refetched(q, refetchType) THEN StartFetch(q) ELSE q
        ELSE c[k]]

\* ------------------------------------------------------------------------
\* sideEffect options
\* ------------------------------------------------------------------------
\* mapKey: omitted (the default (x) => x), a function returning another
\* request object, or a function returning null.
MapKeys == {"identity", "other", "null"}
\* patchFn: omitted, the exported patchFn ({...oldData, ...update}), or a
\* caller's (oldData) => ({count: oldData.count + 1}).
Patches == {"none", "merge", "incr"}
\* updateFn: omitted, the exported updateFn (the result replaces the data),
\* or a caller's (oldData, result) => ({count: oldData.count + result.count}).
Updates == {"none", "replace", "add"}
\* invalidate: omitted, a boolean or one of the strings.
Invalidates == {"unset", "true", "false", "active", "inactive", "all", "none", "remove"}

\* Handlers that patch the cached readUser result; the one that also updates
\* it is the README's handler built from the exported patchFn and updateFn.
PatchDescriptors ==
    {d \in [m : {"readUser"}, mapKey : {"identity", "other"}, patch : {"merge", "incr"},
            update : {"none", "replace"}, invalidate : {"unset"}] :
        d.update = "replace" => (d.mapKey = "identity" /\ d.patch = "merge")}

\* Handlers that invalidate the cached listUsers result, with every value of
\* the invalidate option; some of them update the result first.
InvalidateDescriptors ==
    {d \in [m : {"listUsers"}, mapKey : {"null"}, patch : {"none"},
            update : Updates, invalidate : Invalidates] :
        /\ d.update = "replace" => d.invalidate \in {"remove", "active"}
        /\ d.update = "add" => d.invalidate = "remove"}

Descriptors == PatchDescriptors \cup InvalidateDescriptors

RECURSIVE SeqsUpTo(_, _)
SeqsUpTo(S, n) ==
    IF n = 0 THEN {<<>>}
    ELSE LET shorter == SeqsUpTo(S, n - 1)
         IN shorter \cup {Append(q, x) : q \in {r \in shorter : Len(r) = n - 1}, x \in S}

\* The source request passed to mutate(): the first request object, which
\* carries {count: 7}.
SourceReq == ReqA
\* The source response the service method resolves with.
SourceResp == Obj(9)

\* mapKey where an omitted option gives no target request at all.
MapKeyApplyOmitted(mapKey, req) ==
    CASE mapKey = "identity" -> UndefinedReq
      [] mapKey = "other" -> ReqB
      [] mapKey = "null" -> Null

MapKeyApply(mapKey, req) ==
    CASE mapKey = "identity" -> req
      [] mapKey = "other" -> ReqB
      [] mapKey = "null" -> Null

\* queryKey(m, mapKey ? mapKey(req) : undefined); mapKey is never missing
\* because the destructuring defaults it to the identity.
TargetKey(d, req) == queryKey(d.m, MapKeyApply(d.mapKey, req))

\* A caller's function reading oldData.count throws a TypeError when the
\* old data is undefined.
PatchThrows(patch, oldData) == patch = "incr" /\ ~oldData.def

\* patch ? patch(oldData, req) : oldData
Patched(patch, oldData) ==
    CASE patch = "none" -> oldData
      [] patch = "merge" -> RequestData
      [] patch = "incr" -> Obj(oldData.count + 1)

UpdateThrows(update, oldData) == update = "add" /\ ~oldData.def

\* update(oldData, result)
Updated(update, oldData, result) ==
    CASE update = "replace" -> result
      [] update = "add" -> Obj(oldData.count + result.count)

\* A test of the option that takes 'none' for no invalidation at all.
TruthyExceptNone(invalidate) == invalidate \notin {"unset", "false", "none"}

\* JavaScript truthiness of the invalidate option.
Truthy(invalidate) == invalidate \notin {"unset", "false"}

\* A refetch type that ignores the option: always 'active'.
RefetchTypeActive(invalidate) == "active"

\* typeof invalidate == 'string' ? invalidate : 'active'
RefetchType(invalidate) == IF invalidate = "true" THEN "active" ELSE invalidate

\* ------------------------------------------------------------------------
\* Rollback context: a plain object from joined keys to snapshots
\* ------------------------------------------------------------------------
EmptyContext == [s \in {} |-> Undefined]

\* A fragment whose originalData was never assigned.
FragmentUnassigned(key, originalData) == [s \in {Join(key)} |-> Undefined]

\* { [key.join('-')]: originalData }
Fragment(key, originalData) == [s \in {Join(key)} |-> originalData]

\* Object.assign(context, fragment)
Assign(context, fragment) ==
    [s \in DOMAIN context \cup DOMAIN fragment |->
        IF s \in DOMAIN fragment THEN fragment[s] ELSE context[s]]

\* context[key.join('-')]
Lookup(context, key) ==
    IF Join(key) \in DOMAIN context THEN context[Join(key)] ELSE Undefined

\* ------------------------------------------------------------------------
\* Cache-store calls made by the handlers, in the order they are issued
\* ------------------------------------------------------------------------
Call(i, h, phase, op, key, data, refetchType) ==
    [inv |-> i, h |-> h, phase |-> phase, op |-> op, key |-> key,
     data |-> data, refetchType |-> refetchType]

\* ------------------------------------------------------------------------
\* sideEffect handlers: the synchronous runs of each callback.  Each takes
\* the cache and the call log and gives the cache, the log, the state the
\* callback is left in, the value it returned and the refetches it awaits.
\* ------------------------------------------------------------------------
Outcome(c, l, st, ret, waitOn) ==
    [cache |-> c, log |-> l, st |-> st, ret |-> ret, waitOn |-> waitOn]

\* onMutate that goes to its await without asking for the cancellation.
OnMutateCallNoCancel(c, l, i, h, d, req) ==
    Outcome(c, l, "cancelling", EmptyContext, {})

\* onMutate up to the await: the key is derived and cancelQueries is called;
\* the promise it returns waits on the fetches it cancelled.
OnMutateCall(c, l, i, h, d, req) ==
    LET key == TargetKey(d, req)
    IN Outcome(CancelQueries(c, key),
               Append(l, Call(i, h, "onMutate", "cancelQueries", key, Undefined, "")),
               "cancelling", EmptyContext, {k \in FindAll(c, key) : c[k].fetching})

\* onMutate patching the data the entry held when the mutation began instead
\* of the data the updater is handed.
OnMutateResumedStale(c, l, i, h, d, req) ==
    LET key == TargetKey(d, req)
        originalData == inv[i].before[key]
    IN IF PatchThrows(d.patch, originalData)
       THEN Outcome(c, l, "failed", EmptyContext, {})
       ELSE LET data == Patched(d.patch, originalData)
            IN Outcome(SetQueryData(c, key, data),
                       Append(l, Call(i, h, "onMutate", "setQueryData", key, data, "")),
                       "done", Fragment(key, originalData), {})

\* onMutate that records a snapshot only when it patches: without a patchFn
\* it returns an empty fragment.
OnMutateResumedPatchOnly(c, l, i, h, d, req) ==
    LET key == TargetKey(d, req)
        originalData == GetQueryData(c, key)
    IN IF PatchThrows(d.patch, originalData)
       THEN Outcome(c, l, "failed", EmptyContext, {})
       ELSE IF d.patch = "none"
       THEN Outcome(c, l, "done", EmptyContext, {})
       ELSE LET data == Patched(d.patch, originalData)
            IN Outcome(SetQueryData(c, key, data),
                       Append(l, Call(i, h, "onMutate", "setQueryData", key, data, "")),
                       "done", Fragment(key, originalData), {})

\* onMutate that reads its snapshot before the await (the data the entry held
\* when the mutation began) and patches what the entry holds after it.
OnMutateResumedEarlyRead(c, l, i, h, d, req) ==
    LET key == TargetKey(d, req)
        originalData == inv[i].before[key]
    IN IF PatchThrows(d.patch, GetQueryData(c, key))
       THEN Outcome(c, l, "failed", EmptyContext, {})
       ELSE LET data == Patched(d.patch, GetQueryData(c, key))
            IN Outcome(SetQueryData(c, key, data),
                       Append(l, Call(i, h, "onMutate", "setQueryData", key, data, "")),
                       "done", Fragment(key, originalData), {})

\* onMutate after the await: setQueryData with the updater that records the
\* old data and patches it; the fragment is returned.
OnMutateResumed(c, l, i, h, d, req) ==
    LET key == TargetKey(d, req)
        originalData == GetQueryData(c, key)
    IN IF PatchThrows(d.patch, originalData)
       THEN Outcome(c, l, "failed", EmptyContext, {})
       ELSE LET data == Patched(d.patch, originalData)
            IN Outcome(SetQueryData(c, key, data),
                       Append(l, Call(i, h, "onMutate", "setQueryData", key, data, "")),
                       "done", Fragment(key, originalData), {})

\* onSuccess that, without an update option, writes the snapshot of the
\* invocation's context back as onError does.
OnSuccessUpdateRestoring(c, l, i, h, d, key, result) ==
    IF d.update = "none"
    THEN LET data == Lookup(inv[i].context, key)
         IN [cache |-> SetQueryData(c, key, data),
             log |-> Append(l, Call(i, h, "onSuccess", "setQueryData", key, data, ""))]
    ELSE LET data == Updated(d.update, GetQueryData(c, key), result)
         IN [cache |-> SetQueryData(c, key, data),
             log |-> Append(l, Call(i, h, "onSuccess", "setQueryData", key, data, ""))]

\* The data onSuccess writes when update is set.
OnSuccessUpdate(c, l, i, h, d, key, result) ==
    IF d.update = "none" THEN [cache |-> c, log |-> l]
    ELSE LET data == Updated(d.update, GetQueryData(c, key), result)
         IN [cache |-> SetQueryData(c, key, data),
             log |-> Append(l, Call(i, h, "onSuccess", "setQueryData", key, data, ""))]

\* onSuccess without the branch for 'remove' (the option goes to
\* invalidateQueries like the other strings).
OnSuccessInvalidateOnly(c, l, i, h, d, key) ==
    IF Truthy(d.invalidate)
    THEN LET rt == RefetchType(d.invalidate)
             marked == InvalidateQueries(c, key, rt)
         IN Outcome(marked,
                    Append(l, Call(i, h, "onSuccess", "invalidateQueries", key, Undefined, rt)),
                    "invalidating", EmptyContext, RefetchKeys(marked, key, rt))
    ELSE Outcome(c, l, "done", EmptyContext, {})

\* The removal or invalidation onSuccess requests.
OnSuccessInvalidate(c, l, i, h, d, key) ==
    IF d.invalidate = "remove"
    THEN Outcome(RemoveQueries(c, key),
                 Append(l, Call(i, h, "onSuccess", "removeQueries", key, Undefined, "")),
                 "done", EmptyContext, {})
    ELSE IF Truthy(d.invalidate)
    THEN LET rt == RefetchType(d.invalidate)
             marked == InvalidateQueries(c, key, rt)
         IN Outcome(marked,
                    Append(l, Call(i, h, "onSuccess", "invalidateQueries", key, Undefined, rt)),
                    "invalidating", EmptyContext, RefetchKeys(marked, key, rt))
    ELSE Outcome(c, l, "done", EmptyContext, {})

\* onSuccess with the two steps exchanged: invalidate first, then update.
OnSuccessCallInvalidateFirst(c, l, i, h, d, req, result) ==
    LET key == TargetKey(d, req)
        o == OnSuccessInvalidate(c, l, i, h, d, key)
    IN IF d.update # "none" /\ UpdateThrows(d.update, GetQueryData(o.cache, key))
       THEN Outcome(o.cache, o.log, "failed", EmptyContext, {})
       ELSE LET u == OnSuccessUpdate(o.cache, o.log, i, h, d, key, result)
            IN Outcome(u.cache, u.log, o.st, o.ret, o.waitOn)

\* onSuccess up to its await (or to its end): update first, then invalidate.
OnSuccessCall(c, l, i, h, d, req, result) ==
    LET key == TargetKey(d, req)
    IN IF d.update # "none" /\ UpdateThrows(d.update, GetQueryData(c, key))
       THEN Outcome(c, l, "failed", EmptyContext, {})
       ELSE LET u == OnSuccessUpdate(c, l, i, h, d, key, result)
            IN OnSuccessInvalidate(u.cache, u.log, i, h, d, key)

\* onError that writes the snapshot back only for a handler with a patchFn.
OnErrorCallPatchedOnly(c, l, i, h, d, req, ctxDefined, context) ==
    LET key == TargetKey(d, req)
    IN IF ~ctxDefined
       THEN Outcome(c, l, "failed", EmptyContext, {})
       ELSE IF d.patch = "none"
       THEN Outcome(c, l, "done", EmptyContext, {})
       ELSE LET originalData == Lookup(context, key)
            IN Outcome(SetQueryData(c, key, originalData),
                       Append(l, Call(i, h, "onError", "setQueryData", key, originalData, "")),
                       "done", EmptyContext, {})

\* onError: the snapshot stored under the joined key is written back.  With
\* an undefined context the property read throws a TypeError.
OnErrorCall(c, l, i, h, d, req, ctxDefined, context) ==
    LET key == TargetKey(d, req)
    IN IF ~ctxDefined
       THEN Outcome(c, l, "failed", EmptyContext, {})
       ELSE LET originalData == Lookup(context, key)
            IN Outcome(SetQueryData(c, key, originalData),
                       Append(l, Call(i, h, "onError", "setQueryData", key, originalData, "")),
                       "done", EmptyContext, {})

\* ------------------------------------------------------------------------
\* Service calls: the options useServiceQuery and useServiceMutation build
\* ------------------------------------------------------------------------
\* The header names and the value the request context gives each.
HeaderNames == {"Content-Type", "X-Custom"}
ContextValue(name) == IF name = "Content-Type" THEN "text/plain" ELSE "FooBar"

\* { 'Content-Type': 'application/json' }
DefaultHeaders == [n \in {"Content-Type"} |-> "application/json"]

\* The headers of a request context, a HeadersInit or undefined: `map` is
\* the headers the value stands for, `form` the kind of value (a plain
\* object, a Headers instance, or an array of [name, value] pairs) and
\* `order` the names in the order of an array's pairs.
NoHeaders == [def |-> FALSE, form |-> "undefined", map |-> [n \in {} |-> ""], order |-> <<>>]
HeaderOrders ==
    {q \in SeqsUpTo(HeaderNames, Cardinality(HeaderNames)) :
        \A a, b \in 1..Len(q) : a # b => q[a] # q[b]}
Range(q) == {q[a] : a \in 1..Len(q)}
ContextHeaders ==
    {NoHeaders}
    \cup {[def |-> TRUE, form |-> form, map |-> [n \in D |-> ContextValue(n)], order |-> <<>>] :
            form \in {"object", "Headers"}, D \in SUBSET HeaderNames}
    \cup {[def |-> TRUE, form |-> "array", map |-> [n \in Range(q) |-> ContextValue(n)],
           order |-> q] : q \in HeaderOrders}

\* The request contexts: headers and a path prefix ("" when not set).
Contexts == [headers : ContextHeaders, pathPrefix : {"", "/api"}]

\* The queryKey option: omitted, or a key of the caller.
NoCustomKey == [given |-> FALSE, key |-> <<>>]
CustomKeys ==
    {NoCustomKey} \cup {[given |-> TRUE, key |-> k] : k \in {<<"custom">>, <<"users", ReqB>>}}

\* ...x for a plain object or undefined: spreading undefined adds nothing.
Spread(headers) == IF headers.def THEN headers.map ELSE NoHeaders.map

\* The property name of an array index, and String([name, value]).
IndexName(a) == IF a = 1 THEN "0" ELSE "1"
PairToString(name, value) == name \o "," \o value

\* ...reqInit?.headers, which copies the own enumerable properties of the
\* value: the entries of a plain object, nothing of a Headers instance (its
\* entries are not properties), and the pairs of an array under its indices.
SpreadHeaders(headers) ==
    CASE headers.form = "Headers" -> NoHeaders.map
      [] headers.form = "array" ->
            [x \in {IndexName(a) : a \in 1..Len(headers.order)} |->
                LET a == CHOOSE b \in 1..Len(headers.order) : IndexName(b) = x
                IN PairToString(headers.order[a], headers.map[headers.order[a]])]
      [] OTHER -> Spread(headers)

\* Merged headers in which the default wins over the context.
MergeHeadersDefaultLast(ctx) == Assign(SpreadHeaders(ctx.headers), DefaultHeaders)

\* { 'Content-Type': 'application/json', ...reqInit?.headers }
MergeHeaders(ctx) == Assign(DefaultHeaders, SpreadHeaders(ctx.headers))

\* { ...reqInit, headers: {...} }: the options handed to the service method.
InitReq(ctx) == [pathPrefix |-> ctx.pathPrefix, headers |-> MergeHeaders(ctx)]

\* A key choice that ignores the queryKey option.
QueryOptionsKeyDerived(method, req, custom) == queryKey(method, req)

\* options?.queryKey ?? queryKey(method, req)
QueryOptionsKey(method, req, custom) ==
    IF custom.given THEN custom.key ELSE queryKey(method, req)

\* The values a service call settles with.  A response; a structured error
\* response, which carries a code; a generic Error, which carries none; and
\* null, which a recovery function may return.
Response == [type |-> "response", hasCode |-> FALSE, code |-> 0]
ErrorResponse(code) == [type |-> "error", hasCode |-> TRUE, code |-> code]
GenericError == [type |-> "error", hasCode |-> FALSE, code |-> 0]
NullValue == [type |-> "null", hasCode |-> FALSE, code |-> 0]
\* The error a recovery function of the caller throws by itself.
HandlerError == [type |-> "error", hasCode |-> FALSE, code |-> 1]
ServiceErrors == {ErrorResponse(16), ErrorResponse(5), ErrorResponse(0), GenericError}

\* A predicate that tests the code for truthiness.
isErrorResponseTruthy(error) == error.hasCode /\ error.code # 0

\* isErrorResponse: (error as ErrorResponse).code !== undefined
isErrorResponse(error) == error.hasCode

\* The onError option of useServiceQuery: omitted; a function that returns
\* null; one that returns null for the error response with code 16 and
\* throws the error again otherwise; one that returns null for every error
\* isErrorResponse accepts and throws the error again otherwise; and one
\* that throws its own error.
OnErrors == {"none", "null", "recover16", "structured", "throws"}

\* The result of calling the recovery function with an error.
Recover(onError, error) ==
    CASE onError = "null" -> [thrown |-> FALSE, value |-> NullValue]
      [] onError = "recover16" ->
            IF isErrorResponse(error) /\ error.code = 16
            THEN [thrown |-> FALSE, value |-> NullValue]
            ELSE [thrown |-> TRUE, value |-> error]
      [] onError = "structured" ->
            IF isErrorResponse(error)
            THEN [thrown |-> FALSE, value |-> NullValue]
            ELSE [thrown |-> TRUE, value |-> error]
      [] onError = "throws" -> [thrown |-> TRUE, value |-> HandlerError]

\* How the promise a queryFn or mutationFn returns has settled, and the
\* errors the recovery function was called with.
Settled(status, value, handled) == [status |-> status, value |-> value, handled |-> handled]
Pending == Settled("pending", NullValue, <<>>)

\* A layer that turns a rejection into a success without a value.
ReturnRespSwallowed(rejected, value) == Settled("success", IF rejected THEN NullValue ELSE value, <<>>)

\* `return resp`: the promise of the service method is handed on as it is.
ReturnResp(rejected, value) ==
    Settled(IF rejected THEN "error" ELSE "success", value, <<>>)

\* A catch that calls the recovery function and rejects with the error all
\* the same.
CatchOnErrorRethrown(onError, rejected, value) ==
    IF ~rejected THEN Settled("success", value, <<>>)
    ELSE Settled("error", value, <<value>>)

\* `return resp.catch(options.onError)`
CatchOnError(onError, rejected, value) ==
    IF ~rejected THEN Settled("success", value, <<>>)
    ELSE LET r == Recover(onError, value)
         IN Settled(IF r.thrown THEN "error" ELSE "success", r.value, <<value>>)

\* No service call is being made.
NoCall ==
    [stage |-> "none", kind |-> "none", method |-> "", req |-> UndefinedReq,
     custom |-> NoCustomKey, ctx |-> [headers |-> NoHeaders, pathPrefix |-> ""],
     key |-> <<>>, initReq |-> [pathPrefix |-> "", headers |-> NoHeaders.map],
     onError |-> "none", calls |-> <<>>, settled |-> NullValue, outcome |-> Pending]

\* A hook is rendered with a method, a request, options and a context.
NewCall(kind, method, req, custom, ctx) ==
    [NoCall EXCEPT !.stage = "new", !.kind = kind, !.method = method, !.req = req,
                   !.custom = custom, !.ctx = ctx]

\* ------------------------------------------------------------------------
\* The exported helpers patchFn and updateFn, on objects with named fields
\* ------------------------------------------------------------------------
FieldNames == {"id", "name", "extra"}
FieldValues == {"Old", "New"}

\* undefined, and the plain objects over the field names.
UndefinedObject == [def |-> FALSE, map |-> NoHeaders.map]
Objects ==
    {[def |-> TRUE, map |-> f] :
        f \in UNION {[D -> FieldValues] : D \in SUBSET FieldNames}}

\* A patch in which the old field wins over the field of the request.
patchFnOldWins(oldData, update) ==
    [def |-> TRUE, map |-> Assign(Spread(update), Spread(oldData))]

\* { ...oldData, ...update }
patchFn(oldData, update) ==
    [def |-> TRUE, map |-> Assign(Spread(oldData), Spread(update))]

\* return result
updateFn(oldData, result) == result

\* No target value under the helpers.
NoTarget ==
    [step |-> "none", oldData |-> UndefinedObject, update |-> UndefinedObject,
     result |-> UndefinedObject, value |-> UndefinedObject]

\* ------------------------------------------------------------------------
\* Initial states
\* ------------------------------------------------------------------------
Invocations == 1..NInv

\* The source request each mutate() call is made with: the first invocation
\* passes the first request object, the others the second one.
Request(i) == IF i = 1 THEN SourceReq ELSE ReqB

\* Queries the application has cached before the mutation.
Populated ==
    {queryKey("readUser", ReqA), queryKey("readUser", ReqB),
     queryKey("listUsers", Null), queryKey("listUsers", ReqA)}

\* The scenarios the mutation starts in: nothing cached; the queries
\* cached without observers; cached and observed; and observed with one of
\* the two queries the handlers target being refetched.
Scenarios == {"empty", "cached", "observed", "refetchingUser", "refetchingList"}

\* The query that is being refetched when the mutation starts.
Refetching(scenario) ==
    CASE scenario = "refetchingUser" -> {queryKey("readUser", ReqA)}
      [] scenario = "refetchingList" -> {queryKey("listUsers", Null)}
      [] OTHER -> {}

InitialCache(scenario) ==
    [k \in AllKeys |->
        IF scenario = "empty" \/ k \notin Populated THEN NoQuery
        ELSE IF scenario = "cached" THEN FetchedQuery(CachedData(k), FALSE)
        ELSE IF k \in Refetching(scenario) THEN RefetchingQuery(CachedData(k), TRUE)
        ELSE FetchedQuery(CachedData(k), TRUE)]

\* The data of every query, as a function of the key.
DataOf(c) == [k \in DOMAIN c |-> c[k].data]

NotCalled ==
    [phase |-> "unused", status |-> "none", idx |-> 0,
     building |-> EmptyContext, ctxDefined |-> FALSE, context |-> EmptyContext,
     cause |-> "none", before |-> DataOf(InitialCache("empty")), touched |-> {},
     captured |-> {}, inflight |-> {}]

Idle == [NotCalled EXCEPT !.phase = "idle"]

IdleHandlers ==
    [h \in 1..Len(chain) |->
        [st |-> "idle", ret |-> EmptyContext, waitOn |-> {}, refetched |-> {}]]

SetHandler(handlers, h, o) ==
    [handlers EXCEPT ![h] = [st |-> o.st, ret |-> o.ret, waitOn |-> o.waitOn,
                             refetched |-> {}]]

TypeOK ==
    /\ chain \in Seq(Descriptors) /\ Len(chain) <= MaxChain
    /\ DOMAIN cache = AllKeys
    /\ \A i \in Invocations :
        /\ inv[i].phase \in {"unused", "idle", "onMutate", "mutationFn", "onSuccess",
                             "onError", "success", "error"}
        /\ inv[i].status \in {"none", "pending", "resolved", "rejected"}
        /\ DOMAIN inv[i].context \subseteq AllJoined
        /\ DOMAIN hs[i] = 1..Len(chain)

\* One mutate() call on a hook built from the chain.
Init ==
    /\ chain \in SeqsUpTo(Descriptors, MaxChain)
    /\ \E scenario \in Scenarios : cache = InitialCache(scenario)
    /\ inv = [i \in Invocations |-> IF i = 1 THEN Idle ELSE NotCalled]
    /\ hs = [i \in Invocations |-> IdleHandlers]
    /\ log = <<>>
    /\ call = NoCall
    /\ target = NoTarget

\* ------------------------------------------------------------------------
\* chainSideEffects
\* ------------------------------------------------------------------------
\* The call of handler h's callback for the phase, up to its first await.
CallHandler(phase, c, l, i, h) ==
    CASE phase = "onMutate" -> OnMutateCall(c, l, i, h, chain[h], Request(i))
      [] phase = "onSuccess" -> OnSuccessCall(c, l, i, h, chain[h], Request(i), SourceResp)
      [] phase = "onError" ->
            OnErrorCall(c, l, i, h, chain[h], Request(i), inv[i].ctxDefined, inv[i].context)

\* The for loop of a composed callback reaches handler h and calls it.
Enter(phase, i, h, handlers) ==
    LET o == CallHandler(phase, cache, log, i, h)
    IN /\ cache' = o.cache
       /\ log' = o.log
       /\ hs' = [hs EXCEPT ![i] = SetHandler(handlers, h, o)]

\* The composed callback is invoked: an empty list resolves at once,
\* otherwise the first handler is called.
Begin(phase, i, record) ==
    IF Len(chain) = 0
    THEN /\ inv' = [inv EXCEPT ![i] = [record EXCEPT !.phase = phase, !.status = "resolved",
                                                      !.idx = 0]]
         /\ hs' = [hs EXCEPT ![i] = IdleHandlers]
         /\ UNCHANGED <<cache, log>>
    ELSE /\ inv' = [inv EXCEPT ![i] = [record EXCEPT !.phase = phase, !.status = "pending",
                                                      !.idx = 1]]
         /\ Enter(phase, i, 1, IdleHandlers)

\* The keys of the queries with a fetch in flight.
Fetching(c) == {k \in DOMAIN c : c[k].fetching}

\* The fetches in flight that handler h's cancelQueries call cancels when
\* its pre-mutation is called.
Cancelled(phase, i, h) ==
    IF phase = "onMutate" /\ h \in 1..Len(chain)
    THEN FindAll(cache, TargetKey(chain[h], Request(i))) \cap Fetching(cache)
    ELSE {}

\* The loop without the await: it goes on as soon as the callback was called.
NotAwaited(st) == st # "idle"

\* `await mutation?.onX(...)`: the loop goes on once the callback of the
\* current handler has settled.
Awaited(st) == st \in {"done", "failed"}

\* A loop that catches the rejection of a callback and goes on.
RejectionCaught(st) == FALSE

\* A rejected callback makes the await throw, which ends the loop.
Rejects(st) == st = "failed"

\* The loop of a composed callback resumes after its await: a rejection ends
\* the composed callback, otherwise the next handler is called or the loop
\* ends.  For onMutate the fragment is merged into the context first.
Continue(phase, i) ==
    LET r == inv[i]
        h == r.idx
        merged == IF phase = "onMutate" THEN Assign(r.building, hs[i][h].ret)
                  ELSE r.building
    IN /\ r.phase = phase
       /\ r.status = "pending"
       /\ Awaited(hs[i][h].st)
       /\ IF Rejects(hs[i][h].st)
          THEN /\ inv' = [inv EXCEPT ![i].status = "rejected"]
               /\ UNCHANGED <<cache, log, hs>>
          ELSE IF h < Len(chain)
          THEN /\ inv' = [inv EXCEPT ![i].idx = h + 1, ![i].building = merged,
                                     ![i].inflight = @ \cup Cancelled(phase, i, h + 1)]
               /\ Enter(phase, i, h + 1, hs[i])
          ELSE /\ inv' = [inv EXCEPT ![i].status = "resolved", ![i].building = merged]
               /\ UNCHANGED <<cache, log, hs>>

ChainOnMutate(i) == Continue("onMutate", i) /\ UNCHANGED <<chain, call, target>>
ChainOnSuccess(i) == Continue("onSuccess", i) /\ UNCHANGED <<chain, call, target>>
ChainOnError(i) == Continue("onError", i) /\ UNCHANGED <<chain, call, target>>

\* ------------------------------------------------------------------------
\* sideEffect callbacks resuming after their await
\* ------------------------------------------------------------------------
\* The snapshots a fragment holds, as pairs of joined key and value.
Snapshots(fragment) == {<<s, fragment[s]>> : s \in DOMAIN fragment}

\* onMutate after `await queryClient.cancelQueries(...)`; the snapshot the
\* call captured is recorded for the invocation.
OnMutateResume(i, h) ==
    /\ h \in DOMAIN hs[i]
    /\ hs[i][h].st = "cancelling"
    /\ LET o == IF CancelQueriesPromise(hs[i][h].waitOn) = "rejected"
                THEN Outcome(cache, log, "failed", EmptyContext, {})
                ELSE OnMutateResumed(cache, log, i, h, chain[h], Request(i))
       IN /\ cache' = o.cache
          /\ log' = o.log
          /\ hs' = [hs EXCEPT ![i] = SetHandler(hs[i], h, o)]
          /\ inv' = [inv EXCEPT ![i].captured = @ \cup Snapshots(o.ret)]
    /\ UNCHANGED <<chain, call, target>>

\* onSuccess after `await queryClient.invalidateQueries(...)`: the promise
\* resolves when the refetches it started have ended.
OnSuccessResume(i, h) ==
    /\ h \in DOMAIN hs[i]
    /\ hs[i][h].st = "invalidating"
    /\ \A k \in hs[i][h].waitOn : ~cache[k].fetching
    /\ hs' = [hs EXCEPT ![i][h].st = "done"]
    /\ UNCHANGED <<chain, call, target, cache, inv, log>>

\* ------------------------------------------------------------------------
\* The mutation lifecycle that useServiceMutation hands to useMutation
\* ------------------------------------------------------------------------
\* A context object made once for the chain and reused by every call of the
\* composed onMutate: it holds what the other invocations have put in it.
SharedContext(i) ==
    LET others == {j \in Invocations : j # i /\ DOMAIN inv[j].building # {}}
    IN IF others = {} THEN EmptyContext
       ELSE inv[CHOOSE j \in others : TRUE].building

\* A context object that already holds an entry when the composed onMutate
\* begins.
NewContextWithEntry(i) == Fragment(<<"readUser">>, Undefined)

\* `const context = {}`: every call of the composed onMutate makes its own
\* context object.
NewContext(i) == EmptyContext

\* mutate(req): onMutate is invoked.
Mutate(i) ==
    /\ inv[i].phase = "idle"
    /\ Begin("onMutate", i, [inv[i] EXCEPT !.before = DataOf(cache), !.touched = {},
                                            !.inflight = Cancelled("onMutate", i, 1),
                                            !.building = NewContext(i)])
    /\ UNCHANGED <<chain, call, target>>

\* onMutate resolved: its result becomes the context and mutationFn, the
\* service method, is called.
RunMutationFn(i) ==
    /\ inv[i].phase = "onMutate"
    /\ inv[i].status = "resolved"
    /\ inv' = [inv EXCEPT ![i].phase = "mutationFn", ![i].status = "pending",
                          ![i].ctxDefined = TRUE, ![i].context = inv[i].building]
    /\ UNCHANGED <<chain, call, target, cache, hs, log>>

\* The service method resolves: onSuccess is invoked.
MutationFnResolves(i) ==
    /\ inv[i].phase = "mutationFn"
    /\ Begin("onSuccess", i, inv[i])
    /\ UNCHANGED <<chain, call, target>>

\* The service method rejects: onError is invoked.
MutationFnRejects(i) ==
    /\ inv[i].phase = "mutationFn"
    /\ Begin("onError", i, [inv[i] EXCEPT !.cause = "mutationFn"])
    /\ UNCHANGED <<chain, call, target>>

\* onMutate or onSuccess rejected: onError is invoked with the context the
\* mutation holds, which is undefined when onMutate did not return.
CatchCallbackError(i) ==
    /\ inv[i].phase \in {"onMutate", "onSuccess"}
    /\ inv[i].status = "rejected"
    /\ Begin("onError", i, [inv[i] EXCEPT !.cause = inv[i].phase])
    /\ UNCHANGED <<chain, call, target>>

\* The mutation settles.
Settle(i) ==
    /\ \/ inv[i].phase = "onSuccess" /\ inv[i].status = "resolved"
       \/ inv[i].phase = "onError" /\ inv[i].status \in {"resolved", "rejected"}
    /\ inv' = [inv EXCEPT ![i].phase = IF inv[i].phase = "onSuccess" THEN "success" ELSE "error"]
    /\ UNCHANGED <<chain, call, target, cache, hs, log>>

\* ------------------------------------------------------------------------
\* Fetches of the cached queries
\* ------------------------------------------------------------------------
InProgress(i) == inv[i].phase \notin {"unused", "idle"}

Touch(k) ==
    [i \in Invocations |->
        IF InProgress(i) THEN [inv[i] EXCEPT !.touched = @ \cup {k}] ELSE inv[i]]

\* The refetch an invalidateQueries call awaits has brought data.
Refetch(k) ==
    [i \in Invocations |->
        [h \in DOMAIN hs[i] |->
            IF hs[i][h].st = "invalidating" /\ k \in hs[i][h].waitOn
            THEN [hs[i][h] EXCEPT !.refetched = @ \cup {k}]
            ELSE hs[i][h]]]

\* A fetch resolves with the server's data.
FetchSucceeds(k) ==
    /\ cache[k].fetching
    /\ cache' = [cache EXCEPT ![k] = [@ EXCEPT !.data = ServerData, !.invalidated = FALSE,
                                                !.fetching = FALSE, !.revertData = Undefined,
                                                !.revertInvalidated = FALSE]]
    /\ inv' = Touch(k)
    /\ hs' = Refetch(k)
    /\ UNCHANGED <<chain, call, target, log>>

\* A fetch rejects: the data stays.
FetchFails(k) ==
    /\ cache[k].fetching
    /\ cache' = [cache EXCEPT ![k] = [@ EXCEPT !.fetching = FALSE, !.revertData = Undefined,
                                                !.revertInvalidated = FALSE]]
    /\ UNCHANGED <<chain, call, target, inv, hs, log>>

Next ==
    \/ \E i \in Invocations : Mutate(i)
    \/ \E i \in Invocations : \E h \in 1..MaxChain : OnMutateResume(i, h)
    \/ \E i \in Invocations : ChainOnMutate(i)
    \/ \E i \in Invocations : RunMutationFn(i)
    \/ \E i \in Invocations : MutationFnResolves(i)
    \/ \E i \in Invocations : MutationFnRejects(i)
    \/ \E i \in Invocations : ChainOnSuccess(i)
    \/ \E i \in Invocations : \E h \in 1..MaxChain : OnSuccessResume(i, h)
    \/ \E i \in Invocations : ChainOnError(i)
    \/ \E i \in Invocations : CatchCallbackError(i)
    \/ \E i \in Invocations : Settle(i)
    \/ \E k \in AllKeys : FetchSucceeds(k)
    \/ \E k \in AllKeys : FetchFails(k)

Spec == Init /\ [][Next]_vars

\* ------------------------------------------------------------------------
\* Concurrent mutations: two mutate() calls on the same hook, each with its
\* own request, in any interleaving
\* ------------------------------------------------------------------------
\* The handlers of the hook: one patching the cached readUser result with
\* the exported patchFn, two patching the result cached under the second
\* request, with the exported patchFn and with a caller's function, and one
\* updating and invalidating the listUsers result.
ConcurrentDescriptors ==
    {d \in Descriptors :
        \/ d.m = "readUser" /\ d.mapKey = "identity" /\ d.patch = "merge" /\ d.update = "none"
        \/ d.m = "readUser" /\ d.mapKey = "other" /\ d.update = "none"
        \/ d.m = "listUsers" /\ d.update = "replace" /\ d.invalidate = "active"}

\* Two invocations run concurrently; the hook's handlers are pairwise
\* different.
InitConcurrent ==
    /\ chain \in {q \in SeqsUpTo(ConcurrentDescriptors, MaxConcurrentChain) :
                    \A g, h \in 1..Len(q) : g # h => q[g] # q[h]}
    /\ \E scenario \in {"empty", "observed"} : cache = InitialCache(scenario)
    /\ inv = [i \in Invocations |-> IF i <= 2 THEN Idle ELSE NotCalled]
    /\ hs = [i \in Invocations |-> IdleHandlers]
    /\ log = <<>>
    /\ call = NoCall
    /\ target = NoTarget

SpecConcurrent == InitConcurrent /\ [][Next]_vars

\* ------------------------------------------------------------------------
\* One mutate() call under the scheduling of the event loop
\* ------------------------------------------------------------------------
\* Handlers whose patchFn never throws: the exported patchFn on the cached
\* readUser result, an invalidation of listUsers, and an update of listUsers
\* by a caller's function followed by its removal.
StoreDescriptors ==
    {d \in Descriptors :
        \/ d.patch = "merge"
        \/ d.patch = "none" /\ d.update = "none" /\ d.invalidate = "active"
        \/ d.patch = "none" /\ d.update = "add"}

InitStore ==
    /\ chain \in SeqsUpTo(StoreDescriptors, MaxChain)
    /\ \E scenario \in Scenarios : cache = InitialCache(scenario)
    /\ inv = [i \in Invocations |-> IF i = 1 THEN Idle ELSE NotCalled]
    /\ hs = [i \in Invocations |-> IdleHandlers]
    /\ log = <<>>
    /\ call = NoCall
    /\ target = NoTarget

\* The continuations the job queue runs once they are ready: the loops of
\* the composed callbacks and the mutation moving on.
CallbackSteps ==
    \E i \in Invocations :
        \/ ChainOnMutate(i)
        \/ ChainOnSuccess(i)
        \/ ChainOnError(i)
        \/ RunMutationFn(i)
        \/ CatchCallbackError(i)
        \/ Settle(i)

\* The continuation of `await queryClient.cancelQueries(...)`: the promise
\* settles without waiting for the network, so the handler resumes.
CancelSettles ==
    \E i \in Invocations : \E h \in 1..MaxChain : OnMutateResume(i, h)

\* The settling of the service method and of the fetches is left to the
\* network and has no fairness.
SpecStore ==
    InitStore /\ [][Next]_vars /\ WF_vars(CallbackSteps) /\ WF_vars(CancelSettles)

\* ------------------------------------------------------------------------
\* patchFn as the patch option and updateFn as the update option, applied to
\* one target value
\* ------------------------------------------------------------------------
InitHelpers ==
    /\ chain = <<>>
    /\ cache = InitialCache("empty")
    /\ inv = [i \in Invocations |-> NotCalled]
    /\ hs = [i \in Invocations |-> IdleHandlers]
    /\ log = <<>>
    /\ call = NoCall
    /\ \E oldData \in Objects \cup {UndefinedObject} :
       \E update \in Objects : \E result \in Objects :
            target = [step |-> "cached", oldData |-> oldData, update |-> update,
                      result |-> result, value |-> oldData]

\* onMutate: setQueryData(key, oldData => patch(oldData, req)) with patchFn.
PatchTarget ==
    /\ target.step = "cached"
    /\ target' = [target EXCEPT !.step = "patched",
                                 !.value = patchFn(target.value, target.update)]
    /\ UNCHANGED <<chain, cache, inv, hs, log, call>>

\* onSuccess: setQueryData(key, oldData => update(oldData, resp)) with updateFn.
UpdateTarget ==
    /\ target.step = "patched"
    /\ target' = [target EXCEPT !.step = "updated",
                                 !.value = updateFn(target.value, target.result)]
    /\ UNCHANGED <<chain, cache, inv, hs, log, call>>

NextHelpers == PatchTarget \/ UpdateTarget

SpecHelpers == InitHelpers /\ [][NextHelpers]_vars

\* ------------------------------------------------------------------------
\* useServiceQuery and useServiceMutation: one call to a service method
\* ------------------------------------------------------------------------
\* A query hook with any method, request, queryKey option and context, or a
\* mutation hook with any method, request and context.
InitService ==
    /\ chain = <<>>
    /\ cache = InitialCache("empty")
    /\ inv = [i \in Invocations |-> NotCalled]
    /\ hs = [i \in Invocations |-> IdleHandlers]
    /\ log = <<>>
    /\ target = NoTarget
    /\ \E m \in Methods : \E r \in ReqValues : \E ctx \in Contexts :
        \/ \E custom \in CustomKeys : \E onError \in OnErrors :
                call = [NewCall("query", m, r, custom, ctx) EXCEPT !.onError = onError]
        \/ call = NewCall("mutation", m, r, NoCustomKey, ctx)

\* queryOptions(method, req, reqCtx, options): the key of the query is chosen.
QueryOptions ==
    /\ call.kind = "query"
    /\ call.stage = "new"
    /\ call' = [call EXCEPT !.stage = "options",
                             !.key = QueryOptionsKey(call.method, call.req, call.custom)]
    /\ UNCHANGED <<chain, cache, inv, hs, log, target>>

\* queryFn runs: the method is called with the request and the merged
\* request options.
QueryFn ==
    /\ call.kind = "query"
    /\ call.stage = "options"
    /\ call' = [call EXCEPT !.stage = "called", !.initReq = InitReq(call.ctx),
                             !.calls = Append(@, call.req)]
    /\ UNCHANGED <<chain, cache, inv, hs, log, target>>

\* mutationFn runs: the method is called with the request and the merged
\* request options.
MutationFn ==
    /\ call.kind = "mutation"
    /\ call.stage = "new"
    /\ call' = [call EXCEPT !.stage = "called", !.initReq = InitReq(call.ctx),
                             !.calls = Append(@, call.req)]
    /\ UNCHANGED <<chain, cache, inv, hs, log, target>>

\* The promise queryFn or mutationFn returns, once the service method's
\* promise has settled: queryFn with an onError option attaches it as catch
\* handler, otherwise the method's promise is returned.
ServiceOutcome(rejected, value) ==
    IF call.kind = "query" /\ call.onError # "none"
    THEN CatchOnError(call.onError, rejected, value)
    ELSE ReturnResp(rejected, value)

\* The service method resolves with its response.
MethodResolves ==
    /\ call.stage = "called"
    /\ call' = [call EXCEPT !.stage = "settled", !.settled = Response,
                             !.outcome = ServiceOutcome(FALSE, Response)]
    /\ UNCHANGED <<chain, cache, inv, hs, log, target>>

\* The service method rejects with an error.
MethodRejects(error) ==
    /\ call.stage = "called"
    /\ call' = [call EXCEPT !.stage = "settled", !.settled = error,
                             !.outcome = ServiceOutcome(TRUE, error)]
    /\ UNCHANGED <<chain, cache, inv, hs, log, target>>

NextService ==
    \/ QueryOptions
    \/ QueryFn
    \/ MutationFn
    \/ MethodResolves
    \/ \E error \in ServiceErrors : MethodRejects(error)

SpecService == InitService /\ [][NextService]_vars

\* ------------------------------------------------------------------------
\* Properties
\* ------------------------------------------------------------------------
\* The target key of handler h for the source request.
KeyOf(h) == TargetKey(chain[h], SourceReq)

\* The composed post-error of invocation i ran to its end after the service
\* method rejected.
RolledBack(i) ==
    /\ inv[i].phase \in {"onError", "error"}
    /\ inv[i].cause = "mutationFn"
    /\ inv[i].status = "resolved"

\* C1: rollback round trip for one handler.  With a single handler that has a
\* patchFn and a target entry holding a present value V, once pre-mutation
\* and then post-error have run, and nothing else wrote the target key, the
\* entry holds exactly V.
C1_RollbackRoundTrip ==
    \A i \in Invocations :
        (/\ Len(chain) = 1
         /\ chain[1].patch # "none"
         /\ RolledBack(i)
         /\ inv[i].before[KeyOf(1)].def
         /\ KeyOf(1) \notin inv[i].touched)
        => cache[KeyOf(1)].data = inv[i].before[KeyOf(1)]

\* C1 witness: a rollback that undid a patch which had changed the value.
C1_Witness ==
    \E i \in Invocations :
        /\ Len(chain) = 1
        /\ chain[1].patch # "none"
        /\ RolledBack(i)
        /\ inv[i].before[KeyOf(1)].def
        /\ KeyOf(1) \notin inv[i].touched
        /\ Patched(chain[1].patch, inv[i].before[KeyOf(1)]) # inv[i].before[KeyOf(1)]
        /\ cache[KeyOf(1)].data = inv[i].before[KeyOf(1)]

\* C2: rollback of an entry that did not exist.  With a single handler whose
\* target entry was absent before pre-mutation, after the mutation errors and
\* post-error has run the entry is absent again.
C2_RollbackToAbsent ==
    \A i \in Invocations :
        (/\ Len(chain) = 1
         /\ chain[1].patch # "none"
         /\ RolledBack(i)
         /\ ~inv[i].before[KeyOf(1)].def
         /\ KeyOf(1) \notin inv[i].touched)
        => ~cache[KeyOf(1)].data.def

\* C3: rollback through a chain.  After the composed post-error of a failed
\* mutation, every target entry that held a present value before the composed
\* pre-mutation, and that nothing else wrote, holds that value again.
C3_ChainRollback ==
    \A i \in Invocations :
        RolledBack(i) =>
            \A h \in 1..Len(chain) :
                (inv[i].before[KeyOf(h)].def /\ KeyOf(h) \notin inv[i].touched)
                => cache[KeyOf(h)].data = inv[i].before[KeyOf(h)]

\* The handlers of the chain derive pairwise distinct target keys.
DistinctTargets ==
    \A g, h \in 1..Len(chain) : g # h => KeyOf(g) # KeyOf(h)

\* C4: separate snapshots per target key.  In a chain whose handlers derive
\* pairwise distinct target keys, the merged rollback context holds for each
\* target key the value that entry held before the composed pre-mutation,
\* and after the composed post-error each target entry that held a present
\* value, and that nothing else wrote, holds its own earlier value again.
C4_SeparateSnapshots ==
    \A i \in Invocations :
        (DistinctTargets /\ inv[i].ctxDefined) =>
            \A h \in 1..Len(chain) :
                (inv[i].before[KeyOf(h)].def /\ KeyOf(h) \notin inv[i].touched)
                => /\ Lookup(inv[i].context, KeyOf(h)) = inv[i].before[KeyOf(h)]
                   /\ RolledBack(i)
                        => cache[KeyOf(h)].data = inv[i].before[KeyOf(h)]

\* Handler h's post-success has returned and the loop has not gone further.
SuccessReturned(i, h) ==
    /\ inv[i].phase \in {"onSuccess", "success"}
    /\ inv[i].idx = h
    /\ hs[i][h].st = "done"

\* The positions in the log of the calls handler h of invocation i issued
\* in a phase with one of the operations.
Calls(i, h, phase, ops) ==
    {n \in 1..Len(log) :
        /\ log[n].inv = i /\ log[n].h = h
        /\ log[n].phase = phase /\ log[n].op \in ops}

\* C5: with both updateFn and invalidate = 'remove', the target entry is
\* absent when the handler's post-success has completed.
C5_UpdateThenRemove ==
    \A i \in Invocations : \A h \in 1..Len(chain) :
        (/\ chain[h].update # "none"
         /\ chain[h].invalidate = "remove"
         /\ SuccessReturned(i, h))
        => /\ ~cache[KeyOf(h)].exists
           /\ ~GetQueryData(cache, KeyOf(h)).def

\* C5 witness: such a handler returned after its update wrote the entry.
C5_Witness ==
    \E i \in Invocations : \E h \in 1..Len(chain) :
        /\ chain[h].update # "none"
        /\ chain[h].invalidate = "remove"
        /\ SuccessReturned(i, h)
        /\ \E n \in Calls(i, h, "onSuccess", {"setQueryData"}) : log[n].data.def
        /\ ~cache[KeyOf(h)].exists

\* The invalidate values that request a refetch scope.
Scoped == {"true", "active", "inactive", "all"}

\* Within handler h's post-success every write precedes the invalidate or
\* remove request.
UpdateBeforeInvalidate(i, h) ==
    \A w \in Calls(i, h, "onSuccess", {"setQueryData"}) :
        \A r \in Calls(i, h, "onSuccess", {"invalidateQueries", "removeQueries"}) : w < r

\* The data handler h's post-success wrote.
UpdateWritten(i, h) ==
    {log[n].data : n \in Calls(i, h, "onSuccess", {"setQueryData"})}

\* C6 as stated: the update write precedes the request, and with a scoped
\* invalidation the entry holds updateFn's result and is marked stale when
\* post-success returns.
C6_UpdateStaleOnReturn ==
    \A i \in Invocations : \A h \in 1..Len(chain) :
        /\ UpdateBeforeInvalidate(i, h)
        /\ (/\ chain[h].update # "none"
            /\ chain[h].invalidate \in Scoped
            /\ SuccessReturned(i, h))
           => /\ GetQueryData(cache, KeyOf(h)) \in UpdateWritten(i, h)
              /\ cache[KeyOf(h)].invalidated

\* C6 amended: the update write precedes the request; with a scoped
\* invalidation, when post-success returns the entry holds updateFn's result
\* and is marked stale unless the refetch the invalidation started brought
\* data, and then it holds the refetched data and is not stale.
C6_UpdateBeforeInvalidate ==
    \A i \in Invocations : \A h \in 1..Len(chain) :
        /\ UpdateBeforeInvalidate(i, h)
        /\ (/\ chain[h].update # "none"
            /\ chain[h].invalidate \in Scoped
            /\ SuccessReturned(i, h))
           => IF KeyOf(h) \in hs[i][h].refetched
              THEN /\ GetQueryData(cache, KeyOf(h)) = ServerData
                   /\ ~cache[KeyOf(h)].invalidated
              ELSE /\ GetQueryData(cache, KeyOf(h)) \in UpdateWritten(i, h)
                   /\ cache[KeyOf(h)].invalidated

\* C6 witness: a handler with updateFn and a scoped invalidation returned
\* with the entry holding the written result, marked stale.
C6_Witness ==
    \E i \in Invocations : \E h \in 1..Len(chain) :
        /\ chain[h].update # "none"
        /\ chain[h].invalidate \in Scoped
        /\ SuccessReturned(i, h)
        /\ Calls(i, h, "onSuccess", {"setQueryData"}) # {}
        /\ Calls(i, h, "onSuccess", {"invalidateQueries"}) # {}
        /\ GetQueryData(cache, KeyOf(h)) \in UpdateWritten(i, h)
        /\ cache[KeyOf(h)].invalidated

\* Handlers 1 and 2 patch the same key, which held a present value that
\* nothing else wrote, and handler 2's pre-mutation has returned.
SameKeyPatched(i) ==
    /\ Len(chain) >= 2
    /\ chain[1].patch # "none" /\ chain[2].patch # "none"
    /\ KeyOf(1) = KeyOf(2)
    /\ inv[i].before[KeyOf(1)].def
    /\ KeyOf(1) \notin inv[i].touched
    /\ inv[i].phase = "onMutate"
    /\ inv[i].idx = 2
    /\ hs[i][2].st = "done"

\* C7: composer order preservation.  For a chain [A, B] on one key holding V,
\* B's patchFn receives patchA(V) as old value and the cached value after
\* B's pre-mutation is patchB(patchA(V)).
C7_OrderPreservation ==
    \A i \in Invocations :
        SameKeyPatched(i) =>
            LET V == inv[i].before[KeyOf(1)]
            IN /\ Lookup(hs[i][2].ret, KeyOf(2)) = Patched(chain[1].patch, V)
               /\ GetQueryData(cache, KeyOf(1)) =
                      Patched(chain[2].patch, Patched(chain[1].patch, V))

\* C7 witness: two different patches, whose order shows in the result.
C7_Witness ==
    \E i \in Invocations :
        /\ SameKeyPatched(i)
        /\ LET V == inv[i].before[KeyOf(1)]
           IN /\ Patched(chain[2].patch, Patched(chain[1].patch, V))
                    # Patched(chain[1].patch, Patched(chain[2].patch, V))
              /\ GetQueryData(cache, KeyOf(1)) =
                     Patched(chain[2].patch, Patched(chain[1].patch, V))

\* C8: in each phase the handlers' callbacks run one after another in
\* registration order: a callback has started only if the callbacks of all
\* handlers before it have completed.
C8_Sequential ==
    \A i \in Invocations : \A h \in DOMAIN hs[i] :
        hs[i][h].st # "idle" => \A g \in 1..(h - 1) : hs[i][g].st = "done"

\* C8 witness: the second handler awaits its invalidation after the first
\* handler's post-success, which awaited one too, has completed.
C8_Witness ==
    \E i \in Invocations :
        /\ Len(chain) >= 2
        /\ inv[i].phase = "onSuccess"
        /\ hs[i][1].st = "done"
        /\ Calls(i, 1, "onSuccess", {"invalidateQueries"}) # {}
        /\ hs[i][2].st = "invalidating"

\* The composed post-error of invocation i has ended.
PostErrorEnded(i) ==
    /\ inv[i].phase \in {"onError", "error"}
    /\ inv[i].status \in {"resolved", "rejected"}

\* C9: in the composed post-error every handler attempts its rollback, also
\* when the post-error callback of an earlier handler failed.
C9_EveryHandlerRollsBack ==
    \A i \in Invocations :
        PostErrorEnded(i) => \A h \in DOMAIN hs[i] : hs[i][h].st # "idle"

\* The last call in the log that changed the data under key k, or 0.
LastChange(k) ==
    LET changes == {n \in 1..Len(log) :
                        \/ log[n].op = "setQueryData" /\ log[n].key = k /\ log[n].data.def
                        \/ log[n].op = "removeQueries" /\ Matches(log[n].key, k)}
    IN IF changes = {} THEN 0 ELSE CHOOSE n \in changes : \A m \in changes : m <= n

\* Every write a handler made is still in the cache, for the keys no fetch
\* has written.
WritesInPlace(i) ==
    \A k \in AllKeys :
        (LastChange(k) # 0 /\ log[LastChange(k)].op = "setQueryData"
            /\ k \notin inv[i].touched)
        => GetQueryData(cache, k) = log[LastChange(k)].data

\* C10: fail-fast per phase.  When handler k's callback throws in the
\* composed pre-mutation or post-success, the phase does not resolve, no
\* handler after k is invoked in it and the writes already made stay.
C10_FailFast ==
    \A i \in Invocations : \A k \in DOMAIN hs[i] :
        (inv[i].phase \in {"onMutate", "onSuccess"} /\ hs[i][k].st = "failed")
        => /\ inv[i].status \in {"pending", "rejected"}
           /\ inv[i].idx = k
           /\ \A g \in DOMAIN hs[i] : g > k => hs[i][g].st = "idle"
           /\ WritesInPlace(i)

\* C10 witness: the second handler's patchFn threw after the first handler
\* had patched its entry, and the composed pre-mutation rejected.
C10_Witness ==
    \E i \in Invocations :
        /\ Len(chain) >= 2
        /\ inv[i].phase = "onMutate"
        /\ inv[i].status = "rejected"
        /\ hs[i][2].st = "failed"
        /\ \E n \in Calls(i, 1, "onMutate", {"setQueryData"}) :
            /\ log[n].data.def
            /\ log[n].data # inv[i].before[log[n].key]
            /\ GetQueryData(cache, log[n].key) = log[n].data

\* Handler h's pre-mutation is called in this step, up to its await.
PreMutationCalled(i, h) ==
    /\ hs[i][h].st # "cancelling"
    /\ hs'[i][h].st = "cancelling"

\* Handler h's pre-mutation resumes after its await and returns in this step.
PreMutationReturns(i, h) ==
    /\ hs[i][h].st = "cancelling"
    /\ hs'[i][h].st = "done"

\* C11: pre-mutation returns the fragment {target key -> the value the entry
\* held immediately before the patch} with or without a patchFn; without a
\* patchFn the value under the target key is unchanged; and in both cases the
\* value under every other key is unchanged, also by the cancellation.
C11_PreMutationFrame ==
    [][\A i \in Invocations : \A h \in 1..Len(chain) :
        /\ PreMutationCalled(i, h) =>
              \A k \in AllKeys : GetQueryData(cache', k) = GetQueryData(cache, k)
        /\ PreMutationReturns(i, h) =>
              /\ DOMAIN hs'[i][h].ret = {Join(KeyOf(h))}
              /\ hs'[i][h].ret[Join(KeyOf(h))] = GetQueryData(cache, KeyOf(h))
              /\ chain[h].patch = "none" =>
                    GetQueryData(cache', KeyOf(h)) = GetQueryData(cache, KeyOf(h))
              /\ \A k \in AllKeys \ {KeyOf(h)} :
                    GetQueryData(cache', k) = GetQueryData(cache, k)]_vars

\* C11 witness: a handler without patchFn returned from pre-mutation with the
\* snapshot of a present value, which the entry still holds.
C11_Witness ==
    \E i \in Invocations : \E h \in 1..Len(chain) :
        /\ chain[h].patch = "none"
        /\ inv[i].phase = "onMutate"
        /\ hs[i][h].st = "done"
        /\ Lookup(hs[i][h].ret, KeyOf(h)).def
        /\ GetQueryData(cache, KeyOf(h)) = Lookup(hs[i][h].ret, KeyOf(h))

\* The step is one of invocation i's pre-mutation.
PreMutationStep(i) ==
    /\ inv[i].phase \in {"idle", "onMutate"}
    /\ inv'[i] # inv[i] \/ hs'[i] # hs[i]

\* C12: rollback contexts are never shared.  In every interleaving of the
\* invocations of one hook, the context an invocation builds, and the one
\* handed to its post-success or post-error, holds only snapshots captured
\* by that invocation's own pre-mutation; no step of one invocation's
\* pre-mutation changes the context of another invocation; and the handlers'
\* descriptors never change.
C12_ContextOwned ==
    /\ [](\A i \in Invocations :
            /\ Snapshots(inv[i].building) \subseteq inv[i].captured
            /\ Snapshots(inv[i].context) \subseteq inv[i].captured)
    /\ [][/\ chain' = chain
          /\ \A i, j \in Invocations :
                (i # j /\ PreMutationStep(i) /\ ~PreMutationStep(j))
                => /\ inv'[j].building = inv[j].building
                   /\ inv'[j].context = inv[j].context]_vars

\* C12 witness: two invocations hold contexts with different snapshots under
\* the same joined key, each captured by its own pre-mutation.
C12_Witness ==
    \E i, j \in Invocations : \E s \in AllJoined :
        /\ i # j
        /\ inv[i].ctxDefined /\ inv[j].ctxDefined
        /\ s \in DOMAIN inv[i].context /\ s \in DOMAIN inv[j].context
        /\ inv[i].context[s] # inv[j].context[s]
        /\ <<s, inv[i].context[s]>> \notin inv[j].captured

\* The positions in the log of the patches handler h's pre-mutation wrote.
PatchWrites(i, h) ==
    {n \in Calls(i, h, "onMutate", {"setQueryData"}) : log[n].data.def}

\* C13: in pre-mutation the cancellation for the target key is requested and
\* acknowledged before the patch is written, so from the patch until the
\* mutation's outcome no fetch is in flight for the target key and the entry
\* holds the last value the handlers wrote: the response of a fetch that was
\* in flight when pre-mutation began never replaces the optimistic patch.
C13_CancelBeforePatch ==
    \A i \in Invocations : \A h \in 1..Len(chain) :
        (inv[i].phase \in {"onMutate", "mutationFn"} /\ PatchWrites(i, h) # {})
        => /\ \A w \in PatchWrites(i, h) :
                \E c \in Calls(i, h, "onMutate", {"cancelQueries"}) :
                    c < w /\ log[c].key = log[w].key
           /\ ~cache[KeyOf(h)].fetching
           /\ GetQueryData(cache, KeyOf(h)) = log[LastChange(KeyOf(h))].data

\* C13 witness: a fetch was in flight for the target key when pre-mutation
\* was called and was cancelled, and the service method is running with the
\* patch in the cache.
C13_Witness ==
    \E i \in Invocations : \E h \in 1..Len(chain) :
        /\ inv[i].phase = "mutationFn"
        /\ KeyOf(h) \in inv[i].inflight
        /\ KeyOf(h) \notin inv[i].touched
        /\ \E w \in PatchWrites(i, h) :
            /\ log[w].data # inv[i].before[KeyOf(h)]
            /\ GetQueryData(cache, KeyOf(h)) = log[w].data

\* Handler h's post-success is the one the loop is at, and it has issued
\* its requests.
PostSuccessIssued(i, h) ==
    /\ inv[i].phase = "onSuccess"
    /\ inv[i].idx = h
    /\ hs[i][h].st \in {"invalidating", "done"}

\* C14: the invalidation policy in post-success.  'remove' evicts the target
\* entry and issues no invalidate request; 'active', 'inactive' and 'all'
\* each issue exactly one invalidate request for the target key with that
\* refetch scope and no remove request; and true does what 'active' does.
C14_InvalidatePolicy ==
    /\ \A i \in Invocations : \A h \in 1..Len(chain) :
        PostSuccessIssued(i, h) =>
            LET invalidates == Calls(i, h, "onSuccess", {"invalidateQueries"})
                removes == Calls(i, h, "onSuccess", {"removeQueries"})
            IN /\ chain[h].invalidate = "remove" =>
                    /\ invalidates = {}
                    /\ Cardinality(removes) = 1
                    /\ \A n \in removes : log[n].key = KeyOf(h)
                    /\ ~cache[KeyOf(h)].exists
               /\ chain[h].invalidate \in {"active", "inactive", "all"} =>
                    /\ removes = {}
                    /\ Cardinality(invalidates) = 1
                    /\ \A n \in invalidates :
                        /\ log[n].key = KeyOf(h)
                        /\ log[n].refetchType = chain[h].invalidate
               /\ chain[h].invalidate = "true" =>
                    /\ removes = {}
                    /\ Cardinality(invalidates) = 1
                    /\ \A n \in invalidates :
                        /\ log[n].key = KeyOf(h)
                        /\ log[n].refetchType = "active"
    /\ \A h \in 1..Len(chain) :
        (chain[h].invalidate = "true" /\ inv[1].phase \in {"mutationFn", "onSuccess"}) =>
            OnSuccessInvalidate(cache, <<>>, 1, h, [chain[h] EXCEPT !.invalidate = "true"], KeyOf(h))
                = OnSuccessInvalidate(cache, <<>>, 1, h, [chain[h] EXCEPT !.invalidate = "active"],
                                      KeyOf(h))

\* C14 witness: a handler with invalidate 'inactive' asked for that scope and
\* the refetch of the unobserved target entry is in flight.
C14_Witness ==
    \E i \in Invocations : \E h \in 1..Len(chain) :
        /\ chain[h].invalidate = "inactive"
        /\ PostSuccessIssued(i, h)
        /\ \E n \in Calls(i, h, "onSuccess", {"invalidateQueries"}) :
            log[n].refetchType = "inactive"
        /\ cache[KeyOf(h)].invalidated
        /\ cache[KeyOf(h)].fetching

\* Handler h's post-success is called in this step.
PostSuccessCalled(i, h) ==
    /\ inv'[i].phase = "onSuccess"
    /\ inv'[i].idx = h
    /\ inv[i].phase # "onSuccess" \/ inv[i].idx # h

\* The step evicts no entry and marks no entry stale.
NoInvalidationEffect ==
    \A k \in AllKeys :
        /\ cache[k].exists => cache'[k].exists
        /\ cache'[k].invalidated => cache[k].invalidated

\* Handler h's post-success has issued no invalidate and no remove request.
NoInvalidationRequest(i, h) ==
    Calls(i, h, "onSuccess", {"invalidateQueries", "removeQueries"}) = {}

\* The policies that are stated to take no invalidation action.
NoAction == {"none", "unset", "false"}

\* C15 as stated: with invalidate 'none', unset or false, post-success
\* issues no invalidate and no remove request, and the target entry is
\* neither evicted nor marked stale.
C15_NoInvalidationAction ==
    /\ [](\A i \in Invocations : \A h \in 1..Len(chain) :
            (chain[h].invalidate \in NoAction /\ inv[i].phase = "onSuccess")
            => NoInvalidationRequest(i, h))
    /\ [][\A i \in Invocations : \A h \in 1..Len(chain) :
            (chain[h].invalidate \in NoAction /\ PostSuccessCalled(i, h))
            => NoInvalidationEffect]_vars

\* C15 amended: with invalidate unset or false, post-success issues no
\* invalidate and no remove request and the target entry is neither evicted
\* nor marked stale; with 'none' it issues one invalidate request with
\* refetch type 'none' and no remove request: no entry is evicted, no
\* refetch begins, and every existing entry the target key matches is marked
\* stale.
C15_NoneMarksStale ==
    /\ [](\A i \in Invocations : \A h \in 1..Len(chain) :
            /\ (chain[h].invalidate \in {"unset", "false"} /\ inv[i].phase = "onSuccess")
               => NoInvalidationRequest(i, h)
            /\ (chain[h].invalidate = "none" /\ PostSuccessIssued(i, h))
               => /\ Calls(i, h, "onSuccess", {"removeQueries"}) = {}
                  /\ Cardinality(Calls(i, h, "onSuccess", {"invalidateQueries"})) = 1
                  /\ \A n \in Calls(i, h, "onSuccess", {"invalidateQueries"}) :
                        log[n].key = KeyOf(h) /\ log[n].refetchType = "none")
    /\ [][\A i \in Invocations : \A h \in 1..Len(chain) :
            /\ (chain[h].invalidate \in {"unset", "false"} /\ PostSuccessCalled(i, h))
               => NoInvalidationEffect
            /\ (chain[h].invalidate = "none" /\ PostSuccessCalled(i, h))
               => \A k \in AllKeys :
                    /\ cache'[k].exists = cache[k].exists
                    /\ cache'[k].fetching = cache[k].fetching
                    /\ cache'[k].invalidated =
                          (cache[k].invalidated \/ k \in FindAll(cache, KeyOf(h)))]_vars

\* C15 witness: a handler with invalidate 'none' has returned from
\* post-success and its target entry is marked stale with no fetch in flight.
C15_Witness ==
    \E i \in Invocations : \E h \in 1..Len(chain) :
        /\ chain[h].invalidate = "none"
        /\ SuccessReturned(i, h)
        /\ cache[KeyOf(h)].exists
        /\ cache[KeyOf(h)].invalidated
        /\ ~cache[KeyOf(h)].fetching

\* C16: when a handler's mapKey returns null and invalidate is set to a
\* refetch scope, the post-success of a successful mutation marks every
\* cached entry of the target method stale, whatever request the entry was
\* cached under.
C16_NullKeyInvalidatesAll ==
    [][\A i \in Invocations : \A h \in 1..Len(chain) :
        (/\ chain[h].mapKey = "null"
         /\ chain[h].invalidate \in Scoped
         /\ PostSuccessCalled(i, h))
        => \A k \in AllKeys :
            (cache[k].exists /\ k[1] = chain[h].m) => cache'[k].invalidated]_vars

\* C17: with mapKey omitted the key of every cache-store call a handler
\* makes, in each of the three phases, is queryKey(target method, source
\* request); and with any mapKey the calls one handler makes for one
\* invocation all carry the key derived in pre-mutation.
C17_KeyRederivation ==
    \A n \in 1..Len(log) :
        LET d == chain[log[n].h]
        IN /\ d.mapKey = "identity" => log[n].key = queryKey(d.m, Request(log[n].inv))
           /\ \A p \in 1..Len(log) :
                (log[p].inv = log[n].inv /\ log[p].h = log[n].h) => log[p].key = log[n].key

\* C17 witness: a handler without mapKey issued calls in pre-mutation, in
\* post-success and in post-error, all with the key of the source request.
C17_Witness ==
    \E i \in Invocations : \E h \in 1..Len(chain) :
        /\ chain[h].mapKey = "identity"
        /\ \A phase \in {"onMutate", "onSuccess", "onError"} :
            \E n \in Calls(i, h, phase, {"cancelQueries", "setQueryData"}) :
                log[n].key = <<chain[h].m, Request(i)>>

\* C18: key derivation.  The key of a query without a queryKey option is
\* the one-element sequence [method] exactly when the request is undefined
\* and the two-element sequence [method, request] for every other request,
\* null included; and deriving the key again gives an equal key.
C18_KeyDerivation ==
    (call.kind = "query" /\ call.stage # "new" /\ ~call.custom.given)
    => /\ Len(call.key) = 1 <=> call.req = UndefinedReq
       /\ Len(call.key) \in {1, 2}
       /\ call.key[1] = call.method
       /\ Len(call.key) = 2 => call.key[2] = call.req
       /\ call.key = queryKey(call.method, call.req)

\* C18 witness: a query made with a null request has a two-element key.
C18_Witness ==
    /\ call.kind = "query" /\ call.stage # "new" /\ ~call.custom.given
    /\ call.req = Null
    /\ call.key = <<call.method, Null>>

\* C19: the key a query is stored under is the queryKey option, unchanged,
\* whenever the option is given, and the derived key otherwise.
C19_CustomKeyOverrides ==
    (call.kind = "query" /\ call.stage # "new")
    => /\ call.custom.given => call.key = call.custom.key
       /\ ~call.custom.given => call.key = queryKey(call.method, call.req)

\* C19 witness: a query with a queryKey option that differs from the derived
\* key is stored under the option's key.
C19_Witness ==
    /\ call.kind = "query" /\ call.stage # "new"
    /\ call.custom.given
    /\ call.custom.key # queryKey(call.method, call.req)
    /\ call.key = call.custom.key

\* C20: for every query and mutation call the headers handed to the service
\* method hold every context header with its context value, and
\* Content-Type: application/json unless the context sets Content-Type; no
\* other header is present.
C20_HeaderMerge ==
    call.stage = "called"
    => LET sent == call.initReq.headers
           ctx == call.ctx.headers.map
       IN /\ DOMAIN sent = {"Content-Type"} \cup DOMAIN ctx
          /\ \A n \in DOMAIN ctx : sent[n] = ctx[n]
          /\ "Content-Type" \notin DOMAIN ctx => sent["Content-Type"] = "application/json"

\* The service call of a query with a recovery function has settled.
RecoverySettled ==
    call.kind = "query" /\ call.onError # "none" /\ call.stage = "settled"

\* C21: error recovery for queries.  With an onError function, a service
\* call that rejects with e makes exactly one call of the function, with e;
\* the query succeeds with the value the function returns (null included)
\* and fails with the value the function throws; and a call that resolves
\* never calls the function and succeeds with the response.
C21_ErrorRecovery ==
    RecoverySettled =>
        IF call.settled.type = "error"
        THEN /\ call.outcome.handled = <<call.settled>>
             /\ LET r == Recover(call.onError, call.settled)
                IN /\ call.outcome.value = r.value
                   /\ call.outcome.status = IF r.thrown THEN "error" ELSE "success"
        ELSE /\ call.outcome.handled = <<>>
             /\ call.outcome = Settled("success", call.settled, <<>>)

\* C21 witness: the call rejected with the error response of code 16 and the
\* query succeeded with the null the recovery function returned.
C21_Witness ==
    /\ RecoverySettled
    /\ call.onError = "recover16"
    /\ call.settled = ErrorResponse(16)
    /\ call.outcome = Settled("success", NullValue, <<ErrorResponse(16)>>)

\* The service call of a mutation, or of a query without a recovery
\* function, has settled.
PassThroughSettled ==
    /\ call.stage = "settled"
    /\ call.kind = "mutation" \/ (call.kind = "query" /\ call.onError = "none")

\* C22: without a recovery function a rejected service call is the error
\* outcome of the query or mutation, carrying exactly the error the call
\* rejected with, for error responses and generic errors alike; the method
\* was called once; and a failure never becomes a success.
C22_ErrorPassThrough ==
    PassThroughSettled =>
        /\ Len(call.calls) = 1
        /\ call.outcome.handled = <<>>
        /\ call.outcome.value = call.settled
        /\ call.outcome.status = "error" <=> call.settled \in ServiceErrors

\* C22 witness: a mutation whose service call rejected with a generic error
\* has that error as its outcome.
C22_Witness ==
    /\ PassThroughSettled
    /\ call.kind = "mutation"
    /\ call.settled = GenericError
    /\ call.outcome = Settled("error", GenericError, <<>>)

\* C23: with an empty handler list the composed pre-mutation, post-success
\* and post-error complete at once without any cache-store operation, and
\* pre-mutation returns an empty rollback context.
C23_EmptyChain ==
    Len(chain) = 0 =>
        /\ log = <<>>
        /\ \A i \in Invocations :
            /\ inv[i].phase \in {"onMutate", "onSuccess", "onError"} => inv[i].status = "resolved"
            /\ inv[i].building = EmptyContext
            /\ inv[i].context = EmptyContext
            /\ \A k \in AllKeys : k \notin inv[i].touched =>
                    GetQueryData(cache, k) = inv[i].before[k] \/ ~InProgress(i)

\* C23 witness: a mutation on a hook with no handlers has succeeded, its
\* context is defined and empty.
C23_Witness ==
    /\ Len(chain) = 0
    /\ inv[1].phase = "success"
    /\ inv[1].ctxDefined
    /\ inv[1].context = EmptyContext
    /\ \E k \in AllKeys : cache[k].exists
    /\ log = <<>>

\* The composed pre-mutation of some invocation is waiting on a handler.
PreMutationWaiting ==
    \E i \in Invocations : inv[i].phase = "onMutate" /\ inv[i].status = "pending"

\* No composed pre-mutation is waiting any more: each has resolved, with
\* every handler having written its patch and returned the fragment for its
\* key.
PreMutationCompleted ==
    \A i \in Invocations :
        inv[i].phase = "onMutate" =>
            /\ inv[i].status = "resolved"
            /\ \A h \in 1..Len(chain) :
                /\ hs[i][h].st = "done"
                /\ DOMAIN hs[i][h].ret = {Join(KeyOf(h))}
                /\ Calls(i, h, "onMutate", {"setQueryData"}) # {}

C25_DefaultHelpers ==
    /\ target.step = "patched" =>
        /\ target.value.def
        /\ DOMAIN target.value.map =
                DOMAIN Spread(target.oldData) \cup DOMAIN target.update.map
        /\ \A f \in DOMAIN target.update.map :
                target.value.map[f] = target.update.map[f]
        /\ \A f \in DOMAIN Spread(target.oldData) \ DOMAIN target.update.map :
                target.value.map[f] = target.oldData.map[f]
    /\ target.step = "updated" => target.value = target.result

\* The README example: {id, name: Old, extra} patched with {id, name: New}
\* and then replaced by the response {id, name: New}, which has no extra.
C25_Witness ==
    /\ target.step = "updated"
    /\ target.oldData.def
    /\ DOMAIN target.oldData.map = FieldNames
    /\ target.oldData.map["name"] = "Old"
    /\ DOMAIN target.update.map = {"id", "name"}
    /\ target.update.map["name"] = "New"
    /\ target.update.map["id"] = target.oldData.map["id"]
    /\ target.result = target.update
    /\ target.value = target.result

\* C26: isErrorResponse is true for exactly the errors that carry a code.  A
\* recovery function that recovers from what the predicate accepts recovers
\* from every error response, the one with code 0 included, and hands every
\* generic error on.
C26_ErrorClassification ==
    (RecoverySettled /\ call.onError = "structured" /\ call.settled.type = "error")
    => /\ call.settled.hasCode =>
            call.outcome = Settled("success", NullValue, <<call.settled>>)
       /\ ~call.settled.hasCode =>
            call.outcome = Settled("error", call.settled, <<call.settled>>)

\* C26 witness: the error response with code 0 was classified as structured.
C26_Witness ==
    /\ RecoverySettled
    /\ call.onError = "structured"
    /\ call.settled = ErrorResponse(0)
    /\ call.outcome.status = "success"

\* Handler h's pre-mutation of invocation i has returned its fragment.
PreMutationReturned(i, h) ==
    inv[i].phase = "onMutate" /\ hs[i][h].st = "done"

\* C27: the read of the snapshot and the write of the patch are one step.
\* Under every interleaving of two invocations and the fetches, a handler's
\* pre-mutation makes one setQueryData call on its target key, and the value
\* it wrote is the patch of the snapshot in the fragment it returned.
C27_AtomicSnapshotAndPatch ==
    \A i \in Invocations : \A h \in 1..Len(chain) :
        PreMutationReturned(i, h) =>
            LET key == TargetKey(chain[h], Request(i))
                snapshot == Lookup(hs[i][h].ret, key)
                writes == Calls(i, h, "onMutate", {"setQueryData"})
            IN /\ writes # {}
               /\ \A n \in writes :
                    /\ log[n].key = key
                    /\ log[n].data = Patched(chain[h].patch, snapshot)

\* C27 witness: the second invocation's pre-mutation ran between the call and
\* the return of the first one's, on the same key: the first one's snapshot
\* is the other's optimistic value, not the value its mutation began with.
C27_Witness ==
    /\ Len(chain) = 1
    /\ chain[1].patch = "incr"
    /\ PreMutationReturned(1, 1)
    /\ LET key == TargetKey(chain[1], Request(1))
       IN /\ key = TargetKey(chain[1], Request(2))
          /\ Lookup(hs[1][1].ret, key) # inv[1].before[key]
          /\ <<Join(key), inv[1].before[key]>> \in inv[2].captured

\* The position in the log of the one setQueryData call the only handler of
\* the chain made for invocation i in a phase.
WriteOf(i, phase) == CHOOSE n \in Calls(i, 1, phase, {"setQueryData"}) : TRUE

\* Invocations i and j of a one-handler hook overlapped on one target key
\* and both failed: both pre-mutations wrote before either post-error did,
\* both post-errors have run, i's last, and no fetch wrote the key.
OverlappedAndFailed(i, j) ==
    /\ i # j
    /\ Len(chain) = 1
    /\ TargetKey(chain[1], Request(i)) = TargetKey(chain[1], Request(j))
    /\ RolledBack(i) /\ RolledBack(j)
    /\ TargetKey(chain[1], Request(i)) \notin inv[i].touched \cup inv[j].touched
    /\ \A p \in {i, j} :
            /\ Calls(p, 1, "onMutate", {"setQueryData"}) # {}
            /\ Calls(p, 1, "onError", {"setQueryData"}) # {}
    /\ \A p, q \in {i, j} : WriteOf(p, "onMutate") < WriteOf(q, "onError")
    /\ WriteOf(j, "onError") < WriteOf(i, "onError")

\* C28: two overlapping invocations on one target key that both fail leave
\* the snapshot of the invocation whose post-error ran last: the original
\* value when that invocation's pre-mutation ran first, and the optimistic
\* value of the other invocation when it ran second.
C28_LastRollbackWins ==
    \A i, j \in Invocations :
        OverlappedAndFailed(i, j) =>
            LET key == TargetKey(chain[1], Request(i))
                final == GetQueryData(cache, key)
            IN /\ final = Lookup(inv[i].context, key)
               /\ IF WriteOf(i, "onMutate") < WriteOf(j, "onMutate")
                  THEN final = inv[i].before[key]
                  ELSE final = log[WriteOf(j, "onMutate")].data

\* Handler h's post-error of invocation i is called in this step.
PostErrorCalled(i, h) ==
    /\ inv'[i].phase = "onError"
    /\ inv'[i].idx = h
    /\ inv[i].phase # "onError" \/ inv[i].idx # h

\* C29: post-error writes the snapshot back for a handler without a patchFn
\* too.  When the context holds a present snapshot for the handler's key,
\* the step that calls its post-error issues one setQueryData call with the
\* snapshot and leaves the entry holding it, whatever a refetch or another
\* invocation had written there since pre-mutation.
C29_RollbackWithoutPatch ==
    [][\A i \in Invocations : \A h \in 1..Len(chain) :
        LET key == TargetKey(chain[h], Request(i))
            snapshot == Lookup(inv[i].context, key)
        IN (/\ PostErrorCalled(i, h)
            /\ chain[h].patch = "none"
            /\ inv[i].ctxDefined
            /\ snapshot.def)
           => /\ GetQueryData(cache', key) = snapshot
              /\ log' = Append(log, Call(i, h, "onError", "setQueryData", key, snapshot, ""))
      ]_vars

\* C29 witness: the handler has no patchFn; between the first invocation's
\* pre-mutation and its post-error the second invocation's post-success
\* wrote another value under the key and the refetch it started brought the
\* server's data; the first invocation's post-error was the last call and
\* the entry holds its snapshot.
C29_Witness ==
    /\ Len(chain) = 1
    /\ chain[1].patch = "none"
    /\ RolledBack(1)
    /\ LET key == TargetKey(chain[1], Request(1))
           snapshot == Lookup(inv[1].context, key)
       IN /\ snapshot.def
          /\ key \in inv[1].touched
          /\ Calls(1, 1, "onError", {"setQueryData"}) = {Len(log)}
          /\ \E n \in Calls(2, 1, "onSuccess", {"setQueryData"}) :
                /\ log[n].key = key
                /\ log[n].data # snapshot
                /\ \E m \in Calls(1, 1, "onMutate", {"setQueryData"}) : m < n
          /\ GetQueryData(cache, key) = snapshot

\* The operations a handler can ask of the cache store.
CacheOps == {"cancelQueries", "setQueryData", "invalidateQueries", "removeQueries"}

\* Handler h has a patchFn, no updateFn and no invalidate policy.
PatchOnly(h) ==
    /\ chain[h].patch # "none"
    /\ chain[h].update = "none"
    /\ chain[h].invalidate = "unset"

\* Handler h's post-success of invocation i has been called.
PostSuccessEntered(i, h) ==
    \/ inv[i].phase = "onSuccess" /\ inv[i].idx >= h
    \/ inv[i].phase = "success"

\* C30: the success path never writes a snapshot back.  Post-success of a
\* handler with a patchFn, no updateFn and no invalidate policy returns at
\* once without a cache operation, and while the last write under its
\* target key is its optimistic patch the entry holds that value.
C30_SuccessKeepsPatch ==
    \A i \in Invocations : \A h \in 1..Len(chain) :
        (PatchOnly(h) /\ PostSuccessEntered(i, h)) =>
            /\ hs[i][h].st = "done"
            /\ Calls(i, h, "onSuccess", CacheOps) = {}
            /\ LastChange(KeyOf(h)) \in Calls(i, h, "onMutate", {"setQueryData"}) =>
                    GetQueryData(cache, KeyOf(h)) = log[LastChange(KeyOf(h))].data

\* C30 witness: the mutation succeeded, the handler's post-success issued
\* nothing and the entry holds the optimistic value, not the value it held
\* before.
C30_Witness ==
    /\ Len(chain) = 1
    /\ PatchOnly(1)
    /\ inv[1].phase = "success"
    /\ inv[1].before[KeyOf(1)].def
    /\ Lookup(inv[1].context, KeyOf(1)) = inv[1].before[KeyOf(1)]
    /\ GetQueryData(cache, KeyOf(1)) = Patched(chain[1].patch, inv[1].before[KeyOf(1)])
    /\ GetQueryData(cache, KeyOf(1)) # inv[1].before[KeyOf(1)]
    /\ Calls(1, 1, "onSuccess", CacheOps) = {}

====
